---------------------------- MODULE Spec2Model ----------------------------
(***************************************************************************)
(* The batch collection-and-delivery pipeline of nebula-client:            *)
(* organize_folder (the trigger), _send_batches_to_spring (the background  *)
(* run of one task), SpringClient.send_snapshot_batch (bounded retry of    *)
(* one batch) and the _task_storage registry, run by one asyncio event     *)
(* loop.  A coroutine holds the loop from one await to the next, so the    *)
(* statements between two awaits are taken without interleaving.           *)
(***************************************************************************)
EXTENDS Integers, Sequences, FiniteSets, TLC

VARIABLES
    _task_storage,  \* task id -> tracker entry, or NoEntry
    handler,        \* task id -> position of the organize_folder call that drew the id
    response,       \* task id -> HTTP response of that organize_folder call, or NoResponse
    run,            \* task id -> the _send_batches_to_spring coroutine of the task
    wire,           \* requests posted to the remote endpoint and not answered yet
    posted,         \* task id -> every request posted, in order, one per attempt
    answers,        \* task id -> the answer each finished attempt got, in order
    sleeps,         \* task id -> every asyncio.sleep of the delivery, in order
    logged,         \* task id -> the per-batch outcome lines written by the run
    now,            \* the clock read by datetime.now
    loop,           \* the coroutine holding the event loop, or "free"
    query,          \* task id -> the get_organization_status call for that id
    args,           \* the arguments of a helper function called on its own
    result,         \* what that call returned, or Pending
    folderPath,     \* OrganizedFilesComponent: the text of the path input
    state,          \* OrganizedFilesComponent: the OrganizeState
    inflight        \* the client calls of the component that have not settled

vars == <<_task_storage, handler, response, run, wire, posted, answers,
          sleeps, logged, now, loop, query, args, result,
          folderPath, state, inflight>>

\* The variables of the pipeline, of the status query and of a lone call.
pipeline == <<_task_storage, handler, response, run, wire, posted, answers,
              sleeps, logged, now, loop>>
calls == <<args, result>>
component == <<folderPath, state, inflight>>

---------------------------------------------------------------------------
(* Bounds of the model and constants of the program.                       *)

\* Largest directory scanned (number of files under the root).
MaxFiles == 41

\* SpringClient.__init__: max_retries: int = 3
max_retries == 3

\* Task ids drawn by uuid.uuid4(): distinct calls draw distinct ids.
Tasks == {"t1"}

\* The ids of two requests submitted side by side.
TaskIds == {"t1", "t2"}

\* OrganizationStrategy
Strategies == {"COST_EFFECTIVE", "BALANCED", "PREMIUM"}

\* Directory sizes submitted: empty, one file, one more than the smallest
\* batch size, and the largest directory.
DirSizes == {0, 1, 21, MaxFiles}

\* A task id with no entry in _task_storage.
NoEntry ==
    [status |-> "absent", directory |-> "", total_files |-> 0,
     total_batches |-> 0, created_at |-> 0]

\* An organize_folder call that has not answered yet.
NoResponse ==
    [status_code |-> 0, taskId |-> "", status |-> "", totalFiles |-> 0,
     totalBatches |-> 0]

NoPayload == [task_id |-> ""]

\* A task id for which no background run was created.
NoRun ==
    [pc |-> "none", task_id |-> "", directory |-> "", user_id |-> <<>>,
     batches |-> <<>>, strategy |-> "", max_cost_budget |-> "None",
     batch_num |-> 0, attempt |-> 0, wait |-> 0, payload |-> NoPayload]

\* OrganizationRequest: the path (with what the file system holds under it),
\* the strategy and the optional budget.
Requests ==
    [path : [kind : {"missing"}, files : {0}]
              \cup [kind : {"unreadable"}, files : {0}]
              \cup [kind : {"dir"}, files : DirSizes],
     strategy : Strategies,
     max_cost_budget : {"None"}]

\* What the remote endpoint (or the transport) can answer to one POST.
\*   exc    : the httpx exception raised by client.post, or "none"
\*   status : response.status_code
\*   body   : "model"  a JSON object with the fields of SnapshotBatchResponse
\*            "camel"  the JSON object of the API description (taskId, batchNumber, ...)
\*            "error"  a JSON object {error, message}
\*            "text"   not JSON
Answer(exc, status, body, retryAfter) ==
    [exc |-> exc, status |-> status, body |-> body, retryAfter |-> retryAfter]

AllAnswers ==
    { Answer("none", 200, "model", 0),
      Answer("none", 200, "camel", 0),
      Answer("none", 200, "text", 0),
      Answer("none", 201, "model", 0),
      Answer("none", 400, "error", 0),
      Answer("none", 401, "error", 0),
      Answer("none", 429, "error", 5),
      Answer("none", 500, "error", 0),
      Answer("none", 502, "text", 0),
      Answer("TimeoutException", 0, "text", 0),
      Answer("RequestError", 0, "text", 0) }

---------------------------------------------------------------------------
(* Pure helpers.                                                           *)

Min(a, b) == IF a < b THEN a ELSE b

RECURSIVE Pow2(_)
\* 2 ** attempt
Pow2(n) == IF n = 0 THEN 1 ELSE 2 * Pow2(n - 1)

\* The FileEntry list of a scan of n files: a FileEntry is identified by its
\* absolute path, here the file's position in the traversal.
ScannedFiles(n) == [i \in 1..n |-> i]

RECURSIVE ChunkFrom(_, _, _)
\* for i in range(0, len(files), batch_size): batches.append(files[i : i + batch_size])
ChunkFrom(files, batch_size, i) ==
    IF i >= Len(files) THEN <<>>
    ELSE <<SubSeq(files, i + 1, Min(i + batch_size, Len(files)))>>
             \o ChunkFrom(files, batch_size, i + batch_size)

\* A loop over range(0, len(files) + 1, batch_size): one more, empty, batch
\* when the last batch is full.
ChunkPastTheEnd(files, batch_size) ==
    IF Len(files) % batch_size = 0
    THEN ChunkFrom(files, batch_size, 0) \o << <<>> >>
    ELSE ChunkFrom(files, batch_size, 0)

\* Batches cut from the list read backwards.
ChunkReversed(files, batch_size) ==
    ChunkFrom([i \in 1..Len(files) |-> files[Len(files) + 1 - i]], batch_size, 0)

_chunk_files(files, batch_size) == ChunkFrom(files, batch_size, 0)

\* mapping.get(strategy, 0)
LookupWithoutSize(strategy) ==
    CASE strategy = "COST_EFFECTIVE" -> 100
      [] strategy = "BALANCED" -> 50
      [] strategy = "PREMIUM" -> 20
      [] OTHER -> 0

\* mapping.get(strategy, 50)
_get_batch_size(strategy) ==
    CASE strategy = "COST_EFFECTIVE" -> 100
      [] strategy = "BALANCED" -> 50
      [] strategy = "PREMIUM" -> 20
      [] OTHER -> 50

\* resolve_directory(request.path): the directory, or DirectoryInspectionError
\* when the root is missing or inaccessible.
resolve_directory(path) ==
    IF path.kind = "missing" THEN "DirectoryInspectionError" ELSE "directory"

\* A get_organization_status call that was not made (yet).
NoQuery ==
    [pc |-> "idle", local_status |-> NoEntry, status_code |-> 0,
     localStatus |-> NoEntry, springStatus |-> "None",
     seen |-> [accepted |-> {}, failed |-> {}],
     answer |-> Answer("none", 0, "", 0)]

\* No helper function is being called on its own.
NoCall == [fn |-> "none"]
Pending == [fn |-> "pending"]

---------------------------------------------------------------------------
\* The router module right after import: no task, no request.
InitPipeline ==
    /\ _task_storage = [t \in TaskIds |-> NoEntry]
    /\ handler = [t \in TaskIds |-> [pc |-> "idle", files |-> <<>>, batches |-> <<>>]]
    /\ response = [t \in TaskIds |-> NoResponse]
    /\ run = [t \in TaskIds |-> NoRun]
    /\ wire = {}
    /\ posted = [t \in TaskIds |-> <<>>]
    /\ answers = [t \in TaskIds |-> <<>>]
    /\ sleeps = [t \in TaskIds |-> <<>>]
    /\ logged = [t \in TaskIds |-> <<>>]
    /\ now = 0
    /\ loop = "free"
    /\ query = [t \in TaskIds |-> NoQuery]

\* null, and a string value
null == [kind |-> "null"]
Str(text) == [kind |-> "string", text |-> text]

\* useState(""), useState<OrganizeState>({loading: false, error: null,
\* success: false}); result is "undefined" while the state has no result.
InitComponent ==
    /\ folderPath = ""
    /\ state = [loading |-> FALSE, error |-> null, success |-> FALSE,
                result |-> "undefined"]
    /\ inflight = <<>>

Init ==
    /\ InitPipeline
    /\ args = NoCall
    /\ result = NoCall
    /\ InitComponent

---------------------------------------------------------------------------
(* organize_folder: the trigger.  The handler never awaits anything that   *)
(* suspends, so it holds the event loop from its first statement to its    *)
(* return; its three steps are the statements around asyncio.create_task.  *)

\* The coroutine object handed to asyncio.create_task.
CreateTask(t, request, batches) ==
    [NoRun EXCEPT !.pc = "scheduled",
                  !.task_id = t,
                  !.directory = "directory",
                  !.user_id = <<"user_", t>>,
                  !.batches = batches,
                  !.strategy = request.strategy,
                  !.max_cost_budget = request.max_cost_budget]

\* HTTPException(status_code, detail)
HTTPException(status_code) ==
    [NoResponse EXCEPT !.status_code = status_code, !.status = "error"]

\* A handler that yields the event loop right after create_task.
YieldAfterCreateTask(t) == "free"

\* asyncio.create_task only schedules: the handler goes on holding the loop.
LoopAfterCreateTask(t) == t

\* A handler that builds and schedules the batches of one file before it
\* looks at the path.
ScheduleBeforeValidation(t, request, status_code) ==
    /\ response' = [response EXCEPT ![t] = HTTPException(status_code)]
    /\ handler' = [handler EXCEPT ![t] = [pc |-> "raised", files |-> <<>>, batches |-> <<>>]]
    /\ run' = [run EXCEPT ![t] =
                  CreateTask(t, request, _chunk_files(ScannedFiles(1), _get_batch_size(request.strategy)))]
    /\ UNCHANGED loop

\* The except clauses of organize_folder: the exception left the try block
\* before step 3, so nothing was built, scheduled or stored; the handler
\* ends by raising HTTPException(status_code).
RaiseFromTry(t, request, status_code) ==
    /\ response' = [response EXCEPT ![t] = HTTPException(status_code)]
    /\ handler' = [handler EXCEPT ![t] = [pc |-> "raised", files |-> <<>>, batches |-> <<>>]]
    /\ UNCHANGED <<run, loop>>

\* Steps 1-4: validation, scan, chunking and the scheduling of the run.
organize_folder(t, request) ==
    /\ loop = "free"
    /\ handler[t].pc = "idle"
    /\ IF resolve_directory(request.path) = "DirectoryInspectionError"
       THEN RaiseFromTry(t, request, 400)
       ELSE IF request.path.kind = "unreadable"
       THEN RaiseFromTry(t, request, 500)
       ELSE LET files == ScannedFiles(request.path.files)
                batch_size == _get_batch_size(request.strategy)
                batches == _chunk_files(files, batch_size)
            IN  /\ run' = [run EXCEPT ![t] = CreateTask(t, request, batches)]
                /\ handler' = [handler EXCEPT ![t] =
                                  [pc |-> "created", files |-> files, batches |-> batches]]
                /\ loop' = LoopAfterCreateTask(t)
                /\ UNCHANGED response
    /\ UNCHANGED <<_task_storage, wire, posted, answers, sleeps, logged, now>>
    /\ UNCHANGED <<query, args, result, component>>

\* A store that has set only the status key of the entry so far.
StoreStatusOnly(t) ==
    /\ loop = t
    /\ handler[t].pc = "created"
    /\ _task_storage' = [_task_storage EXCEPT ![t] = [NoEntry EXCEPT !.status = "PROCESSING"]]
    /\ handler' = [handler EXCEPT ![t].pc = "stored"]
    /\ UNCHANGED <<response, run, wire, posted, answers, sleeps, logged, now, loop>>
    /\ UNCHANGED <<query, args, result, component>>

\* Step 5: _task_storage[task_id] = {...}
organize_store(t) ==
    /\ loop = t
    /\ handler[t].pc = "created"
    /\ _task_storage' = [_task_storage EXCEPT ![t] =
           [status |-> "PROCESSING",
            directory |-> "directory",
            total_files |-> Len(handler[t].files),
            total_batches |-> Len(handler[t].batches),
            created_at |-> now]]
    /\ handler' = [handler EXCEPT ![t].pc = "stored"]
    /\ UNCHANGED <<response, run, wire, posted, answers, sleeps, logged, now, loop>>
    /\ UNCHANGED <<query, args, result, component>>

\* return JSONResponse(status_code=202, content={...})
organize_return(t) ==
    /\ loop = t
    /\ handler[t].pc = "stored"
    /\ response' = [response EXCEPT ![t] =
           [status_code |-> 202,
            taskId |-> t,
            status |-> "PROCESSING",
            totalFiles |-> Len(handler[t].files),
            totalBatches |-> Len(handler[t].batches)]]
    /\ handler' = [handler EXCEPT ![t].pc = "returned"]
    /\ loop' = "free"
    /\ UNCHANGED <<_task_storage, run, wire, posted, answers, sleeps, logged, now>>
    /\ UNCHANGED <<query, args, result, component>>

---------------------------------------------------------------------------
(* _send_batches_to_spring and SpringClient.send_snapshot_batch.  What a   *)
(* stretch of the run between two awaits does is an Effect: the run's next *)
(* position, the request it posts, the sleep it starts and the line it     *)
(* logs.                                                                   *)

Effect(r, post, sleep, log) ==
    [run |-> r, post |-> post, sleep |-> sleep, log |-> log]

\* A request numbered from 0, as enumerate(batches) without start=1 gives.
ZeroBasedBatchRequest(r, batch_num) ==
    [task_id |-> r.task_id,
     batch_number |-> batch_num - 1,
     total_batches |-> Len(r.batches),
     directory |-> r.directory,
     user_id |-> r.user_id,
     strategy |-> r.strategy,
     max_cost_budget |-> r.max_cost_budget,
     generated_at |-> now,
     entries |-> r.batches[batch_num]]

\* SnapshotBatchRequest(task_id=..., batch_number=batch_num, ...)
SnapshotBatchRequest(r, batch_num) ==
    [task_id |-> r.task_id,
     batch_number |-> batch_num,
     total_batches |-> Len(r.batches),
     directory |-> r.directory,
     user_id |-> r.user_id,
     strategy |-> r.strategy,
     max_cost_budget |-> r.max_cost_budget,
     generated_at |-> now,
     entries |-> r.batches[batch_num]]

\* batch_request.model_dump(by_alias=True, exclude_none=True, mode="json"):
\* the fields of the request whose value is not None; max_cost_budget is the
\* one Optional field of SnapshotBatchRequest.
model_dump(batch_request) ==
    IF batch_request.max_cost_budget = "None"
    THEN [f \in DOMAIN batch_request \ {"max_cost_budget"} |-> batch_request[f]]
    ELSE batch_request

\* The payload built again for every attempt, with the time of the attempt.
PostFreshPayload(r) ==
    Effect([r EXCEPT !.pc = "awaiting", !.payload.generated_at = now],
           <<[payload |-> [r.payload EXCEPT !.generated_at = now],
              attempt |-> r.attempt]>>, <<>>, <<>>)

\* A post without a timeout to a server that never answers: the request is
\* lost and client.post never returns.
PostWithoutTimeout(r) ==
    Effect([r EXCEPT !.pc = "awaiting"], <<>>, <<>>, <<>>)

\* await client.post(url, json=payload, headers=headers, timeout=self.timeout)
PostAttempt(r) ==
    Effect([r EXCEPT !.pc = "awaiting"],
           <<[payload |-> r.payload, attempt |-> r.attempt]>>, <<>>, <<>>)

\* for batch_num, batch_files in enumerate(batches, start=1): the iteration
\* for batch_num, up to the first post of send_snapshot_batch, or the end
\* of the loop.
Iterate(r, batch_num) ==
    IF batch_num > Len(r.batches)
    THEN Effect([r EXCEPT !.pc = "done"], <<>>, <<>>, <<>>)
    ELSE PostAttempt([r EXCEPT
             !.batch_num = batch_num,
             !.attempt = 0,
             !.payload = model_dump(SnapshotBatchRequest(r, batch_num))])

LogLine(r, level) == [batch_number |-> r.batch_num, level |-> level]

\* The loop goes on with the next batch after a failed one.
ContinueAfterError(r) ==
    [Iterate(r, r.batch_num + 1) EXCEPT !.log = <<LogLine(r, "error")>>]

\* except SpringIntegrationError: logger.error(...); break
OnSpringIntegrationError(r) ==
    Effect([r EXCEPT !.pc = "done"], <<>>, <<>>, <<LogLine(r, "error")>>)

\* except Exception: logger.exception(...); break
OnException(r) ==
    Effect([r EXCEPT !.pc = "done"], <<>>, <<>>, <<LogLine(r, "exception")>>)

\* send_snapshot_batch returned: logger.info("... 전송 완료"), next iteration.
OnReturn(r) ==
    [Iterate(r, r.batch_num + 1) EXCEPT !.log = <<LogLine(r, "info")>>]

\* await asyncio.sleep(seconds)
Sleep(r, seconds) ==
    Effect([r EXCEPT !.pc = "sleeping", !.wait = seconds], <<>>,
           <<[batch_number |-> r.batch_num, attempt |-> r.attempt,
              seconds |-> seconds]>>, <<>>)

\* for attempt in range(self.max_retries + 1): one attempt more.
ExtraAttempt(r) ==
    IF r.attempt + 1 <= max_retries
    THEN PostAttempt([r EXCEPT !.attempt = r.attempt + 1])
    ELSE OnSpringIntegrationError(r)

\* for attempt in range(self.max_retries): the next attempt, or the raise
\* after the loop.
NextAttempt(r) ==
    IF r.attempt + 1 < max_retries
    THEN PostAttempt([r EXCEPT !.attempt = r.attempt + 1])
    ELSE OnSpringIntegrationError(r)

\* response.json(): a dict, or an exception for a body that is not JSON.
IsJson(body) == body # "text"

\* SnapshotBatchResponse(**response.json()): the model has the required fields
\* task_id, batch_number, total_batches, status, message, received_at and no
\* aliases; a dict without them raises ValidationError.
Validates(body) == body = "model"

\* The delay that shrinks with every attempt.
ShrinkingDelay(attempt) == max_retries - attempt

\* 2 ** attempt: the seconds slept after the attempt numbered attempt (from 0).
BackoffDelay(attempt) == Pow2(attempt)

\* if response.status_code == 200: return SnapshotBatchResponse(**response.json())
OnOk(r, ans) ==
    IF IsJson(ans.body) /\ Validates(ans.body)
    THEN OnReturn(r)
    ELSE OnException(r)

\* A 429 raised like any other error status.
RateLimitIsFatal(r, ans) == OnSpringIntegrationError(r)

\* elif response.status_code == 429: await asyncio.sleep(2 ** attempt); continue
\* (the retryAfter of the answer is not read)
OnRateLimited(r, ans) == Sleep(r, BackoffDelay(r.attempt))

\* An error status handled like 429: slept on and retried.
RetryErrorStatus(r, ans) == Sleep(r, BackoffDelay(r.attempt))

\* elif response.status_code >= 400: error_data = response.json(); raise SpringIntegrationError
OnErrorStatus(r, ans) ==
    IF IsJson(ans.body)
    THEN OnSpringIntegrationError(r)
    ELSE OnException(r)

\* except httpx.TimeoutException / except httpx.RequestError
OnTransportError(r) ==
    IF r.attempt = max_retries - 1
    THEN OnSpringIntegrationError(r)
    ELSE Sleep(r, BackoffDelay(r.attempt))

\* A retry loop that returns on every status below 400.
AcceptBelow400(r, ans) ==
    IF ans.exc = "TimeoutException" THEN OnTransportError(r)
    ELSE IF ans.exc = "RequestError" THEN OnTransportError(r)
    ELSE IF ans.status = 200 THEN OnOk(r, ans)
    ELSE IF ans.status = 429 THEN OnRateLimited(r, ans)
    ELSE IF ans.status >= 400 THEN OnErrorStatus(r, ans)
    ELSE OnReturn(r)

\* The body of the retry loop once client.post has returned or raised.
OnAnswer(r, ans) ==
    IF ans.exc = "TimeoutException" THEN OnTransportError(r)
    ELSE IF ans.exc = "RequestError" THEN OnTransportError(r)
    ELSE IF ans.status = 200 THEN OnOk(r, ans)
    ELSE IF ans.status = 429 THEN OnRateLimited(r, ans)
    ELSE IF ans.status >= 400 THEN OnErrorStatus(r, ans)
    ELSE NextAttempt(r)

\* The run takes the effect e: consumed is the request whose answer arrived.
Apply(t, e, consumed) ==
    /\ run' = [run EXCEPT ![t] = e.run]
    /\ wire' = (wire \ consumed) \cup {e.post[i] : i \in 1..Len(e.post)}
    /\ posted' = [posted EXCEPT ![t] = posted[t] \o e.post]
    /\ sleeps' = [sleeps EXCEPT ![t] = sleeps[t] \o e.sleep]
    /\ logged' = [logged EXCEPT ![t] = logged[t] \o e.log]

\* A loop that runs a created task at once, inside create_task.
EagerLoop == TRUE

\* A run that sleeps with time.sleep: nothing else runs meanwhile.
BlockingSleep == loop = "free" /\ \A u \in TaskIds : run[u].pc # "sleeping"

\* The event loop may run another coroutine only when none is running.
LoopFree == loop = "free"

\* The event loop starts the scheduled run: up to its first await.
run_start(t) ==
    /\ LoopFree
    /\ run[t].pc = "scheduled"
    /\ Apply(t, Iterate(run[t], 1), {})
    /\ UNCHANGED <<_task_storage, handler, response, answers, now, loop>>
    /\ UNCHANGED <<query, args, result, component>>

\* A run that records the outcome in the tracker when it ends.
RespondAndRecord(t, ans) ==
    /\ LoopFree
    /\ run[t].pc = "awaiting"
    /\ \E m \in wire :
          /\ m.payload.task_id = t
          /\ Apply(t, OnAnswer(run[t], ans), {m})
    /\ answers' = [answers EXCEPT ![t] = Append(answers[t], ans)]
    /\ now' = now + 1
    /\ _task_storage' = [_task_storage EXCEPT ![t].status =
           IF OnAnswer(run[t], ans).run.pc # "done" THEN @
           ELSE IF OnAnswer(run[t], ans).log[1].level = "info" THEN "COMPLETED"
           ELSE "FAILED"]
    /\ UNCHANGED <<handler, response, loop>>
    /\ UNCHANGED <<query, args, result, component>>

\* client.post returns or raises: the rest of the attempt, up to the next await.
respond(t, ans) ==
    /\ LoopFree
    /\ run[t].pc = "awaiting"
    /\ \E m \in wire :
          /\ m.payload.task_id = t
          /\ Apply(t, OnAnswer(run[t], ans), {m})
    /\ answers' = [answers EXCEPT ![t] = Append(answers[t], ans)]
    /\ now' = now + 1
    /\ UNCHANGED <<_task_storage, handler, response, loop>>
    /\ UNCHANGED <<query, args, result, component>>

\* asyncio.sleep is over: the next turn of the retry loop.
wake(t) ==
    /\ LoopFree
    /\ run[t].pc = "sleeping"
    /\ Apply(t, NextAttempt(run[t]), {})
    /\ now' = now + run[t].wait
    /\ UNCHANGED <<_task_storage, handler, response, answers, loop>>
    /\ UNCHANGED <<query, args, result, component>>

---------------------------------------------------------------------------
Env(tasks, requests, endpoint) ==
    \/ \E t \in tasks, request \in requests : organize_folder(t, request)
    \/ \E t \in tasks : organize_store(t)
    \/ \E t \in tasks : organize_return(t)
    \/ \E t \in tasks : run_start(t)
    \/ \E t \in tasks, ans \in endpoint : respond(t, ans)
    \/ \E t \in tasks : wake(t)

Next == Env(Tasks, Requests, AllAnswers)

Spec == Init /\ [][Next]_vars

---------------------------------------------------------------------------
(* What the properties read off the state.                                 *)

\* The requests of task t on the wire.
InFlight(t) == {m \in wire : m.payload.task_id = t}

BatchOf(t, i) == posted[t][i].payload.batch_number
AttemptOf(t, i) == posted[t][i].attempt

\* The attempts (positions in posted[t]) made for batch b.
PostsOf(t, b) == {i \in 1..Len(posted[t]) : BatchOf(t, i) = b}

\* The sleeps (positions in sleeps[t]) started while delivering batch b.
SleepsOf(t, b) == {k \in 1..Len(sleeps[t]) : sleeps[t][k].batch_number = b}

\* Batches the run logged as delivered, and as failed.
AcceptedBatches(t) ==
    {logged[t][i].batch_number : i \in {j \in 1..Len(logged[t]) : logged[t][j].level = "info"}}

FailedBatches(t) ==
    {logged[t][i].batch_number : i \in {j \in 1..Len(logged[t]) : logged[t][j].level # "info"}}

TotalBatches(t) == Len(run[t].batches)

IsTransportFailure(ans) == ans.exc # "none"
IsRejection(ans) == ans.exc = "none" /\ ans.status \in {400, 401}
IsRateLimited(ans) == ans.exc = "none" /\ ans.status = 429
\* A 200 answer whose body is an acknowledgment send_snapshot_batch can build.
IsAck(ans) == ans.exc = "none" /\ ans.status = 200 /\ ans.body = "model"

RECURSIVE SumSizes(_)
SumSizes(batches) ==
    IF batches = <<>> THEN 0 ELSE Len(Head(batches)) + SumSizes(Tail(batches))

---------------------------------------------------------------------------
(* get_organization_status and SpringClient.get_task_status: the handler   *)
(* reads _task_storage, awaits the remote task resource and answers with   *)
(* both.                                                                   *)

\* What GET /api/snapshots/tasks/{taskId} can answer.  The body of a 200 is
\* the remote service's own record of the task ("json"), or not JSON.
StatusAnswers ==
    { Answer("none", 200, "json", 0),
      Answer("none", 200, "text", 0),
      Answer("none", 404, "error", 0),
      Answer("RequestError", 0, "text", 0) }

\* get_task_status: response.json() of a 200, SpringIntegrationError for
\* another status or a transport error; a 200 that is not JSON raises from
\* response.json().
get_task_status(ans) ==
    IF ans.exc # "none" THEN "SpringIntegrationError"
    ELSE IF ans.status # 200 THEN "SpringIntegrationError"
    ELSE IF ans.body = "text" THEN "JSONDecodeError"
    ELSE ans.body

\* get_organization_status up to its await: the local entry is read first.
\* (seen is history: what the run had logged when the entry was read.)
status_query(t) ==
    /\ loop = "free"
    /\ query[t].pc = "idle"
    /\ query' = [query EXCEPT ![t] =
                    [NoQuery EXCEPT !.pc = "awaiting",
                                    !.local_status = _task_storage[t],
                                    !.seen = [accepted |-> AcceptedBatches(t),
                                              failed |-> FailedBatches(t)]]]
    /\ UNCHANGED <<pipeline, args, result, component>>

\* A handler that answers from the local entry when the remote lookup
\* fails, and with 404 when there is no local entry either.
AnswerFromLocal(t, ans) ==
    /\ loop = "free"
    /\ query[t].pc = "awaiting"
    /\ LET spring_status == get_task_status(ans)
           q == [query[t] EXCEPT !.answer = ans]
       IN  query' = [query EXCEPT ![t] =
              IF spring_status \in {"SpringIntegrationError", "JSONDecodeError"}
              THEN IF q.local_status = NoEntry
                   THEN [q EXCEPT !.pc = "raised", !.status_code = 404]
                   ELSE [q EXCEPT !.pc = "returned", !.status_code = 200,
                                  !.localStatus = q.local_status]
              ELSE [q EXCEPT !.pc = "returned", !.status_code = 200,
                             !.localStatus = q.local_status,
                             !.springStatus = spring_status]]
    /\ UNCHANGED <<pipeline, args, result, component>>

\* get_organization_status after its await: the JSONResponse, 503 on
\* SpringIntegrationError, 500 on any other exception.
\* (answer is history: what the remote lookup got.)
status_answer(t, ans) ==
    /\ loop = "free"
    /\ query[t].pc = "awaiting"
    /\ LET spring_status == get_task_status(ans)
           q == [query[t] EXCEPT !.answer = ans]
       IN  query' = [query EXCEPT ![t] =
              IF spring_status = "SpringIntegrationError"
              THEN [q EXCEPT !.pc = "raised", !.status_code = 503]
              ELSE IF spring_status = "JSONDecodeError"
              THEN [q EXCEPT !.pc = "raised", !.status_code = 500]
              ELSE [q EXCEPT !.pc = "returned", !.status_code = 200,
                             !.localStatus = q.local_status,
                             !.springStatus = spring_status]]
    /\ UNCHANGED <<pipeline, args, result, component>>

\* The pipeline on a directory that gives three batches or none, against an
\* endpoint that accepts, fails or times out, with one status query per task.
StatusRequests ==
    [path : [kind : {"missing"}, files : {0}] \cup [kind : {"dir"}, files : {0, MaxFiles}],
     strategy : {"PREMIUM"},
     max_cost_budget : {"None"}]

StatusEndpoint ==
    { Answer("none", 200, "model", 0),
      Answer("none", 500, "error", 0),
      Answer("TimeoutException", 0, "text", 0) }

NextStatus ==
    \/ Env(Tasks, StatusRequests, StatusEndpoint)
    \/ \E t \in Tasks : status_query(t)
    \/ \E t \in Tasks, ans \in StatusAnswers : status_answer(t, ans)

SpecStatus == Init /\ [][NextStatus]_vars

---------------------------------------------------------------------------
(* C1: within one task at most one request is in flight at any moment,     *)
(* attempts are made in batch-number order starting at batch 1, a new      *)
(* attempt is posted only once the previous one was answered, and the      *)
(* first attempt for batch N+1 directly follows the attempt for batch N    *)
(* that send_snapshot_batch accepted (a 200 acknowledgment).               *)
C1_SequentialDelivery ==
    \A t \in Tasks :
        /\ Cardinality(InFlight(t)) <= 1
        /\ Len(posted[t]) - Len(answers[t]) \in {0, 1}
        /\ \A i \in 1..Len(posted[t]) :
              IF i = 1
              THEN BatchOf(t, i) = 1 /\ AttemptOf(t, i) = 0
              ELSE \/ /\ BatchOf(t, i) = BatchOf(t, i - 1)
                      /\ AttemptOf(t, i) = AttemptOf(t, i - 1) + 1
                   \/ /\ BatchOf(t, i) = BatchOf(t, i - 1) + 1
                      /\ AttemptOf(t, i) = 0
                      /\ IsAck(answers[t][i - 1])
                      /\ BatchOf(t, i - 1) \in AcceptedBatches(t)

\* Batch 2 is in flight after batch 1 needed a retry.
C1_Witness ==
    \E t \in Tasks :
        /\ Len(posted[t]) >= 3
        /\ BatchOf(t, Len(posted[t])) = 2
        /\ InFlight(t) # {}

(* C2: once a batch of a task is logged as failed (SpringIntegrationError  *)
(* or any other exception) the run is over: nothing of the task is in      *)
(* flight, every attempt made was answered, the last attempt made is the   *)
(* one that failed and no batch with a higher number was ever attempted.   *)
C2_HaltAfterFailure ==
    \A t \in Tasks : \A b \in FailedBatches(t) :
        /\ run[t].pc = "done"
        /\ InFlight(t) = {}
        /\ Len(posted[t]) = Len(answers[t])
        /\ BatchOf(t, Len(posted[t])) = b
        /\ \A i \in 1..Len(posted[t]) : BatchOf(t, i) <= b
        /\ FailedBatches(t) = {b}

\* Batch 1 of a task of several batches failed on an unexpected error.
C2_Witness ==
    \E t \in Tasks :
        /\ 1 \in FailedBatches(t)
        /\ TotalBatches(t) >= 2
        /\ logged[t][Len(logged[t])].level = "exception"

(* C3 (as claimed): the tracker status of a task whose run is over is      *)
(* COMPLETED exactly when every batch was accepted, and PARTIAL_FAILURE    *)
(* when a batch failed.                                                    *)
C3_StatusReflectsBatches ==
    \A t \in Tasks :
        (run[t].pc = "done" /\ TotalBatches(t) >= 1) =>
            /\ (_task_storage[t].status = "COMPLETED")
                  <=> (AcceptedBatches(t) = 1..TotalBatches(t))
            /\ FailedBatches(t) # {} => _task_storage[t].status = "PARTIAL_FAILURE"

(* C4: an attempt answered 400 or 401 is the last attempt of the task: it  *)
(* is followed by no sleep, the batch is logged as failed, and when the    *)
(* rejected attempt is the batch's first, the batch got exactly one        *)
(* attempt and no sleep at all.                                            *)
C4_NoRetryOnRejection ==
    \A t \in Tasks : \A i \in 1..Len(answers[t]) :
        IsRejection(answers[t][i]) =>
            /\ i = Len(posted[t])
            /\ run[t].pc = "done"
            /\ BatchOf(t, i) \in FailedBatches(t)
            /\ \A k \in SleepsOf(t, BatchOf(t, i)) :
                  sleeps[t][k].attempt < AttemptOf(t, i)
            /\ AttemptOf(t, i) = 0 =>
                  /\ Cardinality(PostsOf(t, BatchOf(t, i))) = 1
                  /\ SleepsOf(t, BatchOf(t, i)) = {}

\* The first attempt of batch 2 was rejected.
C4_Witness ==
    \E t \in Tasks : \E i \in 1..Len(answers[t]) :
        /\ IsRejection(answers[t][i])
        /\ AttemptOf(t, i) = 0
        /\ BatchOf(t, i) = 2

(* C5: the attempts of one batch never exceed max_retries; the sleeps of   *)
(* one batch never get shorter; a transport failure (timeout or connection *)
(* error) on attempt a < max_retries - 1 is slept on for 2^a seconds (1,   *)
(* 2, 4, ...), and a transport failure on the last attempt starts no sleep *)
(* and fails the batch.                                                    *)
C5_TransportBackoff ==
    \A t \in Tasks :
        /\ \A b \in 1..TotalBatches(t) :
              /\ Cardinality(PostsOf(t, b)) <= max_retries
              /\ \A k1, k2 \in SleepsOf(t, b) :
                    k1 < k2 => sleeps[t][k1].seconds <= sleeps[t][k2].seconds
        /\ \A i \in 1..Len(answers[t]) :
              IsTransportFailure(answers[t][i]) =>
                  LET b == BatchOf(t, i)
                      a == AttemptOf(t, i)
                      slept == {k \in SleepsOf(t, b) : sleeps[t][k].attempt = a}
                  IN  IF a = max_retries - 1
                      THEN /\ slept = {}
                           /\ b \in FailedBatches(t)
                           /\ run[t].pc = "done"
                           /\ i = Len(posted[t])
                      ELSE /\ Cardinality(slept) = 1
                           /\ \A k \in slept : sleeps[t][k].seconds = Pow2(a)

\* Every attempt of a batch ended in a transport failure.
C5_Witness ==
    \E t \in Tasks : \E b \in 1..TotalBatches(t) :
        /\ Cardinality(PostsOf(t, b)) = max_retries
        /\ \A i \in PostsOf(t, b) :
              i <= Len(answers[t]) /\ IsTransportFailure(answers[t][i])

(* C6 (as claimed): the sleep that follows an attempt answered 429 with    *)
(* retryAfter = R lasts at least R seconds.                                *)
C6_RetryAfterHonoured ==
    \A t \in Tasks : \A i \in 1..Len(answers[t]) :
        IsRateLimited(answers[t][i]) =>
            \A k \in SleepsOf(t, BatchOf(t, i)) :
                sleeps[t][k].attempt = AttemptOf(t, i) =>
                    sleeps[t][k].seconds >= answers[t][i].retryAfter

C8_StableBatchIdentity ==
    \A t \in Tasks : \A i \in 1..Len(posted[t]) :
        LET p == posted[t][i].payload IN
        /\ p.task_id = t
        /\ p.batch_number \in 1..TotalBatches(t)
        /\ p.entries = run[t].batches[p.batch_number]
        /\ \A j \in 1..Len(posted[t]) :
              posted[t][j].payload.batch_number = p.batch_number
                  => posted[t][j].payload = p

\* A batch was retried after a sleep and the next batch was posted too.
C8_Witness ==
    \E t \in Tasks :
        /\ Len(posted[t]) >= 3
        /\ BatchOf(t, 1) = BatchOf(t, 2)
        /\ BatchOf(t, 3) # BatchOf(t, 1)
        /\ SleepsOf(t, 1) # {}

(* C9: every step of a task's delivery happens after organize_folder has   *)
(* returned its 202 acknowledgment {taskId, totalFiles, totalBatches}, and *)
(* whatever the delivery does (acceptance, rejection, exhausted retries)   *)
(* the response stays that acknowledgment.                                 *)
C9_AckIndependentOfDelivery ==
    \A t \in Tasks :
        (run[t].pc \notin {"none", "scheduled"} \/ posted[t] # <<>>) =>
            response[t] = [status_code |-> 202,
                           taskId |-> t,
                           status |-> "PROCESSING",
                           totalFiles |-> SumSizes(run[t].batches),
                           totalBatches |-> Len(run[t].batches)]

\* A delivery that failed, with the acknowledgment still in place.
C9_Witness ==
    \E t \in Tasks :
        /\ FailedBatches(t) # {}
        /\ response[t].status_code = 202
        /\ response[t].totalBatches >= 2

(* C10: the run is scheduled before the tracker entry is written (between  *)
(* create_task and the write the run exists, has not started, and the task *)
(* has no entry), yet the run takes its first step, and so makes its first *)
(* delivery attempt, only when _task_storage[task_id] is written.          *)
C10_EntryBeforeFirstAttempt ==
    \A t \in Tasks :
        /\ handler[t].pc = "created" =>
              run[t].pc = "scheduled" /\ _task_storage[t] = NoEntry
        /\ (run[t].pc \notin {"none", "scheduled"} \/ posted[t] # <<>>) =>
              /\ _task_storage[t] # NoEntry
              /\ _task_storage[t].status = "PROCESSING"
              /\ _task_storage[t].total_batches = TotalBatches(t)

\* The first attempt of a stored task is in flight.
C10_Witness ==
    \E t \in Tasks :
        /\ Len(posted[t]) = 1
        /\ InFlight(t) # {}
        /\ _task_storage[t] # NoEntry

---------------------------------------------------------------------------
\* The entry the status query answered with carries the field under its
\* camelCase or its snake_case name.
HasField(entry, names) == names \cap DOMAIN entry # {}

(* C11 (as claimed): a status query that found the task's entry answers    *)
(* with the task's status, its processed and total batch counts and a      *)
(* per-batch status; the processed count is the number of batches accepted *)
(* when the entry was read, and the status is PARTIAL_FAILURE once a batch *)
(* has failed (3 batches, batch 2 fails: PARTIAL_FAILURE, 1 processed).    *)
C11_StatusQueryReports ==
    \A t \in Tasks :
        (query[t].pc = "returned" /\ query[t].localStatus # NoEntry) =>
            LET entry == query[t].localStatus
                seen == query[t].seen
            IN  /\ seen.failed # {} => entry.status = "PARTIAL_FAILURE"
                /\ HasField(entry, {"totalBatches", "total_batches"})
                /\ HasField(entry, {"processedBatches", "processed_batches"})
                /\ entry.processedBatches = Cardinality(seen.accepted)
                /\ HasField(entry, {"batches", "perBatchStatus", "per_batch_status"})

(* C12 (as claimed): the task of an empty directory has no batches, makes  *)
(* no delivery attempt, logs no failure, is answered 202 and its tracker   *)
(* status is COMPLETED once its run is over.                               *)
C12_EmptyDirectoryCompleted ==
    \A t \in Tasks :
        (handler[t].pc = "returned" /\ handler[t].files = <<>> /\ run[t].pc = "done") =>
            /\ handler[t].batches = <<>>
            /\ response[t].status_code = 202
            /\ response[t].totalBatches = 0
            /\ posted[t] = <<>>
            /\ FailedBatches(t) = {}
            /\ _task_storage[t].status = "COMPLETED"

(* C13: a request whose path fails validation (or whose scan raises) is    *)
(* answered by the handler itself with an HTTP error, and for that request *)
(* no batch is built, no entry is stored in _task_storage, no background   *)
(* run is created and no delivery attempt is ever posted.                  *)
C13_ValidationFailureAborts ==
    \A t \in Tasks :
        /\ (handler[t].pc = "raised") <=> (response[t].status_code \in {400, 500})
        /\ handler[t].pc = "raised" =>
              /\ handler[t].batches = <<>>
              /\ _task_storage[t] = NoEntry
              /\ run[t] = NoRun
              /\ posted[t] = <<>>
              /\ InFlight(t) = {}
              /\ logged[t] = <<>>

\* A request for a missing directory was answered 400.
C13_Witness ==
    \E t \in Tasks :
        /\ handler[t].pc = "raised"
        /\ response[t].status_code = 400

---------------------------------------------------------------------------
(* The scan: _collect_and_extract_files and _get_file_type, and the PARA   *)
(* rule applied to a FileEntry.  A path is what directory.rglob("*")       *)
(* yields: whether its name starts with ".", its suffix, whether it is a   *)
(* regular file, what the extractor of its type does when called on it,    *)
(* and whether path.stat() works.  Confidence is in hundredths.            *)

\* Longest directory listing scanned by a lone call of the scan.
MaxListing == 2

\* Largest batch size, besides the three of the strategies, given to a lone
\* call of _chunk_files.
MaxBatch == 4

\* What an extractor called on a path does: raise, or return nothing, two
\* lines, or six lines.
Extractions == {"raises", "empty", "some", "many"}

Paths ==
    [hidden : {FALSE}, suffix : {".pdf", ".PNG", ".csv", ".md", ".py", ".bin"}, is_file : {TRUE},
     extract : Extractions, stat : {"ok"}]
    \cup {[hidden |-> TRUE, suffix |-> ".pdf", is_file |-> TRUE, extract |-> "some", stat |-> "ok"],
          [hidden |-> FALSE, suffix |-> "", is_file |-> FALSE, extract |-> "some", stat |-> "ok"],
          [hidden |-> FALSE, suffix |-> ".pdf", is_file |-> TRUE, extract |-> "some", stat |-> "raises"]}

\* A file, a directory, a hidden file and a file whose stat() fails.
StatPaths ==
    {path \in Paths : path.suffix \in {"", ".pdf"} /\ path.extract = "some"}

\* Every listing of up to MaxListing paths, and the listings of one path more
\* made of StatPaths.
Listings ==
    UNION {[1..n -> Paths] : n \in 0..MaxListing} \cup [1..MaxListing + 1 -> StatPaths]

\* str.lower() on the suffixes of Paths.
lower(suffix) ==
    CASE suffix = ".PNG" -> ".png"
      [] suffix = ".PDF" -> ".pdf"
      [] OTHER -> suffix

\* type_mapping.get(suffix): the file type, or None.
_get_file_type(path) ==
    LET suffix == lower(path.suffix)
    IN  CASE suffix = ".pdf" -> "pdf"
          [] suffix \in {".png", ".jpg", ".jpeg", ".webp"} -> "image"
          [] suffix \in {".xlsx", ".xls"} -> "xlsx"
          [] suffix = ".csv" -> "csv"
          [] suffix = ".md" -> "markdown"
          [] suffix = ".txt" -> "text"
          [] suffix = ".py" -> "python"
          [] suffix = ".js" -> "javascript"
          [] suffix = ".ts" -> "typescript"
          [] OTHER -> "None"

\* The lines an extractor returns for a path it does not raise on.
Lines(path) ==
    CASE path.extract = "some" -> <<"k1", "k2">>
      [] path.extract = "many" -> <<"k1", "k2", "k3", "k4", "k5", "k6">>
      [] OTHER -> <<>>

\* build_summary_text and result.caption: a text, or None when there is none.
Caption(path) == IF Lines(path) = <<>> THEN "None" ELSE "summary"

\* keywords = [], caption = None, confidence = 0.0: the locals before the
\* inner try.
Locals == [keywords |-> <<>>, caption |-> "None", confidence |-> 0, raised |-> FALSE]

\* An if/elif chain that ends in an else branch reading the first line of
\* any other file.
ExtractFirstLineByDefault(file_type, path) ==
    IF path.extract = "raises" THEN [Locals EXCEPT !.raised = TRUE]
    ELSE [Locals EXCEPT !.keywords = <<"line">>, !.confidence = 50]

\* The body of the inner try: the branch of the file's type, which raises
\* before it assigns anything when the extractor raises.
ExtractByType(file_type, path) ==
    IF file_type \notin {"pdf", "image", "xlsx", "csv"} THEN Locals
    ELSE IF path.extract = "raises" THEN [Locals EXCEPT !.raised = TRUE]
    ELSE IF file_type = "pdf"
    THEN [Locals EXCEPT !.keywords = Lines(path), !.confidence = 90]
    ELSE IF file_type = "image"
    THEN [Locals EXCEPT !.keywords = Lines(path), !.caption = Caption(path),
                        !.confidence = 85]
    ELSE [Locals EXCEPT !.keywords = IF Caption(path) # "None" THEN <<Caption(path)>> ELSE <<>>,
                        !.caption = Caption(path), !.confidence = 80]

\* An inner try without its except clause: the exception goes on to the
\* outer one.
ExtractionErrorPropagates(locals) == locals

\* except Exception as exc: logger.warning(...): the exception ends here and
\* the locals keep what they held.
InnerExcept(locals) == [locals EXCEPT !.raised = FALSE]

\* keywords[-5:]: the last five.
LastFive(keywords) ==
    SubSeq(keywords, Len(keywords) - Min(5, Len(keywords)) + 1, Len(keywords))

\* keywords[:5]
FirstFive(keywords) == SubSeq(keywords, 1, Min(5, Len(keywords)))

\* A scan that flags the source files of a development project.
ScanPathFlaggingSources(path, i) ==
    IF path.hidden THEN <<>>
    ELSE LET file_type == _get_file_type(path)
             locals == IF path.is_file
                       THEN InnerExcept(ExtractByType(file_type, path))
                       ELSE Locals
         IN  IF locals.raised \/ path.stat = "raises" THEN <<>>
             ELSE <<[relative_path |-> i,
                     is_directory |-> ~path.is_file,
                     is_development |-> file_type \in {"python", "javascript", "typescript"},
                     file_type |-> file_type,
                     keywords |-> FirstFive(locals.keywords),
                     caption |-> locals.caption,
                     confidence |-> locals.confidence]>>

\* One turn of the loop for the i-th path: the entries it appends (one, or
\* none when the path is hidden or the outer except skips it).
ScanPath(path, i) ==
    IF path.hidden THEN <<>>
    ELSE LET file_type == _get_file_type(path)
             locals == IF path.is_file
                       THEN InnerExcept(ExtractByType(file_type, path))
                       ELSE Locals
         IN  IF locals.raised \/ path.stat = "raises" THEN <<>>
             ELSE <<[relative_path |-> i,
                     is_directory |-> ~path.is_file,
                     is_development |-> FALSE,
                     file_type |-> file_type,
                     keywords |-> FirstFive(locals.keywords),
                     caption |-> locals.caption,
                     confidence |-> locals.confidence]>>

RECURSIVE ScanUntilError(_, _)
\* An outer except clause that ends the traversal (break) at the first path
\* whose record cannot be built.
ScanUntilError(listing, i) ==
    IF i > Len(listing) THEN <<>>
    ELSE IF ~listing[i].hidden /\ listing[i].stat = "raises" THEN <<>>
    ELSE ScanPath(listing[i], i) \o ScanUntilError(listing, i + 1)

RECURSIVE ScanFrom(_, _)
ScanFrom(listing, i) ==
    IF i > Len(listing) THEN <<>>
    ELSE ScanPath(listing[i], i) \o ScanFrom(listing, i + 1)

_collect_and_extract_files(listing) == ScanFrom(listing, 1)

\* ParaBucket
ParaBucket == {"PROJECTS", "AREAS", "RESOURCES", "ARCHIVE"}

\* A rule that looks at the keywords before the development flag.
KeywordsFirst(entry) ==
    IF entry.keywords # <<>> THEN "RESOURCES"
    ELSE IF entry.is_development THEN "PROJECTS"
    ELSE "ARCHIVE"

\* if entry.is_development: PROJECTS elif entry.keywords: RESOURCES else: ARCHIVE
para_bucket(entry) ==
    IF entry.is_development THEN "PROJECTS"
    ELSE IF entry.keywords # <<>> THEN "RESOURCES"
    ELSE "ARCHIVE"

---------------------------------------------------------------------------
(* frontend-client.ts: inspectAndOrganizeFolder and                        *)
(* inspectAndOrganizeWithGeneration.  A JavaScript number is finite (an    *)
(* integer here), NaN, Infinity or -Infinity; a string is the sequence of  *)
(* its pieces, a decimal number being one piece per digit.                 *)

\* Largest finite pageSize passed to the client.
MaxPageSize == 510

Num(v) == [kind |-> "finite", value |-> v]
NaN == [kind |-> "NaN", value |-> 0]
Infinity == [kind |-> "Infinity", value |-> 0]
NegInfinity == [kind |-> "-Infinity", value |-> 0]
\* The argument left out by the caller.
undefined == [kind |-> "undefined", value |-> 0]

\* The pageSize arguments passed: left out, the integers from -2 to
\* MaxPageSize, and the numbers that are not finite.
PageSizes ==
    {undefined, NaN, Infinity, NegInfinity} \cup {Num(v) : v \in (-2)..MaxPageSize}

\* a < b on numbers other than NaN.
Less(a, b) ==
    \/ a.kind = "-Infinity" /\ b.kind # "-Infinity"
    \/ b.kind = "Infinity" /\ a.kind # "Infinity"
    \/ a.kind = "finite" /\ b.kind = "finite" /\ a.value < b.value

\* Math.min and Math.max: NaN when an argument is NaN.
MathMin(a, b) ==
    IF a.kind = "NaN" \/ b.kind = "NaN" THEN NaN
    ELSE IF Less(a, b) THEN a ELSE b

MathMax(a, b) ==
    IF a.kind = "NaN" \/ b.kind = "NaN" THEN NaN
    ELSE IF Less(a, b) THEN b ELSE a

DigitChar(d) == <<"0", "1", "2", "3", "4", "5", "6", "7", "8", "9">>[d + 1]

RECURSIVE DecimalDigits(_)
DecimalDigits(n) ==
    IF n < 10 THEN <<DigitChar(n)>>
    ELSE DecimalDigits(n \div 10) \o <<DigitChar(n % 10)>>

\* Number.prototype.toString
toString(x) ==
    CASE x.kind = "NaN" -> <<"NaN">>
      [] x.kind = "Infinity" -> <<"Infinity">>
      [] x.kind = "-Infinity" -> <<"-Infinity">>
      [] x.kind = "finite" /\ x.value < 0 -> <<"-">> \o DecimalDigits(-x.value)
      [] OTHER -> DecimalDigits(x.value)

\* pageSize: number = 100
DefaultPageSize(pageSize) == IF pageSize = undefined THEN Num(100) ELSE pageSize

\* const validPageSize = Math.max(10, Math.min(pageSize, 500))
validPageSize(pageSize) == MathMax(Num(10), MathMin(pageSize, Num(500)))

\* What fetch does: resolve with a response (status, and a body that is a
\* JSON object with a detail text, a JSON object without one, the JSON of a
\* result, or not JSON), or reject with a TypeError.
FetchAnswers ==
    { Answer("none", 200, "result", 0),
      Answer("none", 200, "text", 0),
      Answer("none", 201, "result", 0),
      Answer("none", 202, "result", 0),
      Answer("none", 204, "text", 0),
      Answer("none", 304, "text", 0),
      Answer("none", 400, "detail", 0),
      Answer("none", 400, "nodetail", 0),
      Answer("none", 500, "detail", 0),
      Answer("none", 503, "detail", 0),
      Answer("none", 503, "nodetail", 0),
      Answer("none", 502, "text", 0),
      Answer("TypeError", 0, "text", 0) }

\* response.ok
ok(ans) == ans.status \in 200..299

\* The detail texts the server answers with (none holds a status code).
Detail(status) ==
    CASE status = 400 -> "detail: no such path"
      [] status = 503 -> "detail: remote server unreachable"
      [] OTHER -> "detail: internal error"

\* error.detail || `HTTP ${response.status}`
ErrorMessage(ans) ==
    IF ans.body = "detail" THEN <<Detail(ans.status)>>
    ELSE <<"HTTP ">> \o toString(Num(ans.status))

\* The message of the error thrown inside the try block, or <<>> when the
\* block returns: fetch rejects, response.json() rejects on a body that is
\* not JSON, or a response that is not ok is turned into an Error.
Thrown(ans) ==
    IF ans.exc # "none" THEN <<"Failed to fetch">>
    ELSE IF ans.body = "text" THEN <<"Unexpected token">>
    ELSE IF ~ok(ans) THEN ErrorMessage(ans)
    ELSE <<>>

\* inspectAndOrganizeFolder / inspectAndOrganizeWithGeneration: the URL
\* fetched and how the promise settles ("organize request failed: " stands
\* for the Korean prefix of the two functions).
inspectAndOrganize(endpoint, pageSize, ans) ==
    LET url == [path |-> endpoint,
                page_size |-> toString(validPageSize(DefaultPageSize(pageSize)))]
    IN  IF Thrown(ans) = <<>>
        THEN [url |-> url, settled |-> "resolved", message |-> <<>>, body |-> ans.body]
        ELSE [url |-> url, settled |-> "rejected",
              message |-> <<"organize request failed: ">> \o Thrown(ans), body |-> "none"]

\* A test that lets only 202 through.
Accepts202Only(ans) == ans.status = 202

\* if (response.status !== 202 && !response.ok) is not taken
batchAccepts(ans) == ~(ans.status # 202 /\ ~ok(ans))

\* The message of the error thrown inside the try block of
\* inspectAndOrganizeBatch, or <<>> when the block returns.
ThrownByBatch(ans) ==
    IF ans.exc # "none" THEN <<"Failed to fetch">>
    ELSE IF ~batchAccepts(ans)
    THEN IF ans.body = "text" THEN <<"Unexpected token">> ELSE ErrorMessage(ans)
    ELSE IF ans.body = "text" THEN <<"Unexpected token">>
    ELSE <<>>

\* The same for getUserStats and getFilesByBucket, which do not read the
\* body of a response that is not ok: throw new Error(`HTTP ${response.status}`).
ThrownByGet(ans) ==
    IF ans.exc # "none" THEN <<"Failed to fetch">>
    ELSE IF ~ok(ans) THEN <<"HTTP ">> \o toString(Num(ans.status))
    ELSE IF ans.body = "text" THEN <<"Unexpected token">>
    ELSE <<>>

\* return await response.json(), or the catch block:
\* throw new Error(`<prefix>: ${error.message}`)
Settle(url, prefix, thrown, ans) ==
    IF thrown = <<>>
    THEN [url |-> url, settled |-> "resolved", message |-> <<>>, body |-> ans.body]
    ELSE [url |-> url, settled |-> "rejected",
          message |-> <<prefix>> \o thrown, body |-> "none"]

\* The three functions without a page size (the prefixes stand for the
\* Korean ones of the source, one per function).
inspectAndOrganizeBatch(ans) ==
    Settle([path |-> "/api/folders/inspect-and-organize/batch"],
           "batch request failed: ", ThrownByBatch(ans), ans)

getUserStats(ans) ==
    Settle([path |-> "/api/organized-files/user/{userId}/stats"],
           "stats lookup failed: ", ThrownByGet(ans), ans)

getFilesByBucket(ans) ==
    Settle([path |-> "/api/organized-files/user/{userId}/bucket/{bucket}"],
           "files lookup failed: ", ThrownByGet(ans), ans)

---------------------------------------------------------------------------
(* A helper function called on its own: args holds the call, result its    *)
(* return value.                                                           *)

\* The calls made: _chunk_files on lists of up to MaxFiles records with the
\* batch sizes 1..MaxBatch and those of the strategies, _get_batch_size on
\* each strategy and on a value outside the enum, the scan on each listing,
\* the PARA rule on each (is_development, keywords) pair, the two paged
\* client functions on each pageSize and each answer of fetch, the other
\* three client functions on each answer of fetch.
CallArgs ==
    [fn : {"_chunk_files"}, files : {ScannedFiles(n) : n \in 0..MaxFiles},
     batch_size : (1..MaxBatch) \cup {_get_batch_size(s) : s \in Strategies}]
    \cup [fn : {"_get_batch_size"}, strategy : Strategies \cup {"UNKNOWN"}]
    \cup [fn : {"_collect_and_extract_files"}, listing : Listings]
    \cup [fn : {"para_bucket"},
          entry : [is_development : BOOLEAN,
                   keywords : {<<>>, <<"k1">>, <<"k1", "k2">>}]]
    \cup [fn : {"inspectAndOrganizeFolder", "inspectAndOrganizeWithGeneration"},
          pageSize : PageSizes, answer : FetchAnswers]
    \cup [fn : {"inspectAndOrganizeBatch", "getUserStats", "getFilesByBucket"},
          answer : FetchAnswers]

InitCalls ==
    /\ InitPipeline
    /\ args \in CallArgs
    /\ result = Pending
    /\ InitComponent

Return(value) ==
    /\ result = Pending
    /\ result' = [fn |-> args.fn, value |-> value]
    /\ UNCHANGED <<pipeline, query, args, component>>

call_chunk_files ==
    /\ args.fn = "_chunk_files"
    /\ Return(_chunk_files(args.files, args.batch_size))

call_get_batch_size ==
    /\ args.fn = "_get_batch_size"
    /\ Return(_get_batch_size(args.strategy))

call_collect_and_extract_files ==
    /\ args.fn = "_collect_and_extract_files"
    /\ Return(_collect_and_extract_files(args.listing))

call_para_bucket ==
    /\ args.fn = "para_bucket"
    /\ Return(para_bucket(args.entry))

call_inspectAndOrganizeFolder ==
    /\ args.fn = "inspectAndOrganizeFolder"
    /\ Return(inspectAndOrganize("/api/folders/inspect-and-organize",
                                 args.pageSize, args.answer))

call_inspectAndOrganizeWithGeneration ==
    /\ args.fn = "inspectAndOrganizeWithGeneration"
    /\ Return(inspectAndOrganize("/api/folders/inspect-and-organize-with-generation",
                                 args.pageSize, args.answer))

call_inspectAndOrganizeBatch ==
    /\ args.fn = "inspectAndOrganizeBatch"
    /\ Return(inspectAndOrganizeBatch(args.answer))

call_getUserStats ==
    /\ args.fn = "getUserStats"
    /\ Return(getUserStats(args.answer))

call_getFilesByBucket ==
    /\ args.fn = "getFilesByBucket"
    /\ Return(getFilesByBucket(args.answer))

NextCalls ==
    \/ call_chunk_files
    \/ call_get_batch_size
    \/ call_collect_and_extract_files
    \/ call_para_bucket
    \/ call_inspectAndOrganizeFolder
    \/ call_inspectAndOrganizeWithGeneration
    \/ call_inspectAndOrganizeBatch
    \/ call_getUserStats
    \/ call_getFilesByBucket

SpecCalls == InitCalls /\ [][NextCalls]_vars

\* The call of fn has returned.
Returned(fn) == args.fn = fn /\ result # Pending

---------------------------------------------------------------------------
RECURSIVE Concat(_)
Concat(batches) ==
    IF batches = <<>> THEN <<>> ELSE Head(batches) \o Concat(Tail(batches))

\* The places (batch, position) at which record f lies in batches.
PlacesOf(f, batches) ==
    {<<b, k>> \in (1..Len(batches)) \X (1..MaxFiles + 1) :
        k <= Len(batches[b]) /\ batches[b][k] = f}

(* C14: _chunk_files on N files with batch size B > 0 returns ceil(N/B)    *)
(* batches whose sizes sum to N; every batch but the last has B records    *)
(* and the last has between 1 and B.                                       *)
C14_ChunkCountAndSizes ==
    Returned("_chunk_files") =>
        LET N == Len(args.files)
            B == args.batch_size
            batches == result.value
        IN  /\ Len(batches) = (N + B - 1) \div B
            /\ SumSizes(batches) = N
            /\ \A b \in 1..Len(batches) :
                  IF b < Len(batches)
                  THEN Len(batches[b]) = B
                  ELSE Len(batches[b]) \in 1..B

\* A list that the batch size does not divide was cut in three batches, the
\* last one short.
C14_Witness ==
    /\ Returned("_chunk_files")
    /\ Len(result.value) = 3
    /\ Len(args.files) % args.batch_size # 0
    /\ Len(result.value[3]) < args.batch_size

(* C15: the batches of _chunk_files, concatenated in order, are the input  *)
(* list, and every record of the input lies in exactly one batch, at one   *)
(* position.                                                               *)
C15_ChunkKeepsRecords ==
    Returned("_chunk_files") =>
        /\ Concat(result.value) = args.files
        /\ \A k \in 1..Len(args.files) :
              Cardinality(PlacesOf(args.files[k], result.value)) = 1

\* A list of several records was cut in more than one batch.
C15_Witness ==
    /\ Returned("_chunk_files")
    /\ Len(result.value) >= 2
    /\ Len(args.files) >= 3
    /\ Len(result.value[1]) >= 2

(* C16: every request a task posts carries a batch number in               *)
(* 1..total_batches, the batch numbers posted so far are 1..k for some k,  *)
(* every request carries the number of batches the handler built and       *)
(* reported in its 202 answer, and its entries are the (non-empty) batch   *)
(* of that number.                                                         *)
C16_BatchNumbering ==
    \A t \in Tasks :
        /\ \A i \in 1..Len(posted[t]) :
              LET payload == posted[t][i].payload
              IN  /\ payload.batch_number \in 1..payload.total_batches
                  /\ payload.total_batches = Len(handler[t].batches)
                  /\ payload.total_batches = response[t].totalBatches
                  /\ payload.entries # <<>>
                  /\ payload.entries = handler[t].batches[payload.batch_number]
        /\ LET used == {BatchOf(t, i) : i \in 1..Len(posted[t])}
           IN  used = 1..Cardinality(used)

\* The third of three batches was posted.
C16_Witness ==
    \E t \in Tasks :
        /\ TotalBatches(t) = 3
        /\ \E i \in 1..Len(posted[t]) : BatchOf(t, i) = 3

(* C17: _get_batch_size returns 100 for COST_EFFECTIVE, 50 for BALANCED,   *)
(* 20 for PREMIUM and 50 for any other value: always a positive integer.   *)
C17_BatchSizeLookup ==
    Returned("_get_batch_size") =>
        /\ args.strategy = "COST_EFFECTIVE" => result.value = 100
        /\ args.strategy = "BALANCED" => result.value = 50
        /\ args.strategy = "PREMIUM" => result.value = 20
        /\ args.strategy \notin Strategies => result.value = 50
        /\ result.value \in Nat \ {0}

\* The lookup was made for a value outside the enum.
C17_Witness ==
    /\ Returned("_get_batch_size")
    /\ args.strategy \notin Strategies

(* C18: the PARA rule gives every (is_development, keywords) pair one      *)
(* bucket: PROJECTS when is_development, else RESOURCES when there are     *)
(* keywords, else ARCHIVE; never AREAS; and the bucket returned is the     *)
(* bucket of any other evaluation on the same entry.                       *)
C18_ParaRule ==
    Returned("para_bucket") =>
        /\ result.value \in ParaBucket \ {"AREAS"}
        /\ args.entry.is_development => result.value = "PROJECTS"
        /\ (~args.entry.is_development /\ args.entry.keywords # <<>>)
              => result.value = "RESOURCES"
        /\ (~args.entry.is_development /\ args.entry.keywords = <<>>)
              => result.value = "ARCHIVE"
        /\ result.value = para_bucket(args.entry)

\* A development entry with keywords was classified.
C18_Witness ==
    /\ Returned("para_bucket")
    /\ args.entry.is_development
    /\ args.entry.keywords # <<>>

\* The entries the scan returned for the i-th path of the listing.
EntriesOf(i) ==
    {k \in 1..Len(result.value) : result.value[k].relative_path = i}

\* The scan gets as far as appending an entry for the path: its name is not
\* hidden and path.stat() works.
Recordable(path) == ~path.hidden /\ path.stat = "ok"

\* The path is a file of a type with an extractor.
HasHandler(path) ==
    path.is_file /\ _get_file_type(path) \in {"pdf", "image", "xlsx", "csv"}

(* C19: when the extractor raises on a file, the scan still returns one    *)
(* entry for that file, with no keywords, no caption and confidence 0, and *)
(* an entry for every other recordable path of the listing, in listing     *)
(* order.                                                                  *)
C19_ExtractionFailureAbsorbed ==
    Returned("_collect_and_extract_files") =>
        LET listing == args.listing
            raising == {i \in 1..Len(listing) :
                          /\ Recordable(listing[i])
                          /\ HasHandler(listing[i])
                          /\ listing[i].extract = "raises"}
        IN  raising # {} =>
              /\ \A i \in raising :
                    /\ Cardinality(EntriesOf(i)) = 1
                    /\ \A k \in EntriesOf(i) :
                          /\ result.value[k].keywords = <<>>
                          /\ result.value[k].caption = "None"
                          /\ result.value[k].confidence = 0
              /\ \A j \in 1..Len(listing) :
                    Recordable(listing[j]) => Cardinality(EntriesOf(j)) = 1
              /\ \A k \in 1..Len(result.value) - 1 :
                    result.value[k].relative_path < result.value[k + 1].relative_path

\* The extractor raised on the first file and the second file was recorded
\* with its keywords.
C19_Witness ==
    /\ Returned("_collect_and_extract_files")
    /\ Len(args.listing) >= 2
    /\ Recordable(args.listing[1]) /\ HasHandler(args.listing[1])
    /\ args.listing[1].extract = "raises"
    /\ Len(result.value) = 2
    /\ result.value[2].keywords # <<>>

(* C20: a recordable file whose type has no extractor is returned by the   *)
(* scan as one entry with no keywords, confidence 0 and is_development     *)
(* false, and the PARA rule puts that entry in ARCHIVE.                    *)
C20_NoHandlerIsArchive ==
    Returned("_collect_and_extract_files") =>
        \A i \in 1..Len(args.listing) :
            (Recordable(args.listing[i]) /\ args.listing[i].is_file
                /\ ~HasHandler(args.listing[i])) =>
                /\ Cardinality(EntriesOf(i)) = 1
                /\ \A k \in EntriesOf(i) :
                      /\ result.value[k].keywords = <<>>
                      /\ result.value[k].confidence = 0
                      /\ ~result.value[k].is_development
                      /\ para_bucket(result.value[k]) = "ARCHIVE"

\* A file of a mapped type without extractor (.md) and one of an unmapped
\* type (.bin) were scanned.
C20_Witness ==
    /\ Returned("_collect_and_extract_files")
    /\ Len(args.listing) = 2
    /\ args.listing[1].suffix = ".md" /\ args.listing[1].extract = "some"
    /\ args.listing[2].suffix = ".bin"
    /\ Len(result.value) = 2
    /\ result.value[1].file_type = "markdown"
    /\ result.value[2].file_type = "None"

---------------------------------------------------------------------------
\* What the extractor of the path's type gave the scan as keywords: the
\* lines of a pdf or an image, the one summary of a sheet.
ExtractorOutput(path) ==
    IF ~HasHandler(path) \/ path.extract = "raises" THEN <<>>
    ELSE IF _get_file_type(path) \in {"xlsx", "csv"}
    THEN (IF Caption(path) # "None" THEN <<Caption(path)>> ELSE <<>>)
    ELSE Lines(path)

(* C21: every entry the scan returns has at most 5 keywords, which are the *)
(* first entries of its extractor's output in their order, and a           *)
(* confidence between 0 and 1 (0..100 hundredths).                         *)
C21_KeywordsTruncated ==
    Returned("_collect_and_extract_files") =>
        \A k \in 1..Len(result.value) :
            LET entry == result.value[k]
                output == ExtractorOutput(args.listing[entry.relative_path])
            IN  /\ Len(entry.keywords) <= 5
                /\ Len(entry.keywords) <= Len(output)
                /\ entry.keywords = SubSeq(output, 1, Len(entry.keywords))
                /\ Len(output) <= 5 => entry.keywords = output
                /\ entry.confidence \in 0..100

\* An extractor returned six lines and the entry holds five.
C21_Witness ==
    /\ Returned("_collect_and_extract_files")
    /\ \E k \in 1..Len(result.value) :
          /\ Len(Lines(args.listing[result.value[k].relative_path])) = 6
          /\ Len(result.value[k].keywords) = 5
          /\ result.value[k].confidence = 90

---------------------------------------------------------------------------
(* Two requests side by side: each directory gives two batches (21 files,  *)
(* PREMIUM), and the endpoint accepts or times out.                        *)

TwoRequests ==
    [path : [kind : {"dir"}, files : {21}],
     strategy : {"PREMIUM"},
     max_cost_budget : {"None"}]

TwoEndpoint ==
    { Answer("none", 200, "model", 0),
      Answer("TimeoutException", 0, "text", 0) }

NextTwo == Env(TaskIds, TwoRequests, TwoEndpoint)

SpecTwo == Init /\ [][NextTwo]_vars

\* What belongs to task u: its tracker entry, its run and what its run did.
Owned(u) ==
    <<_task_storage[u], run[u], posted[u], answers[u], sleeps[u], logged[u]>>

\* The run of t took a step.
RunStep(t) == run[t].pc \notin {"none", "scheduled"} /\ run'[t] # run[t]

\* Whatever the other task is doing, the run of u can take its next step:
\* start, get the answer of its request, or wake from its sleep.
CanGoOn(u) ==
    /\ run[u].pc = "scheduled" /\ handler[u].pc = "returned" => ENABLED run_start(u)
    /\ run[u].pc = "awaiting" => ENABLED (\E ans \in TwoEndpoint : respond(u, ans))
    /\ run[u].pc = "sleeping" => ENABLED wake(u)

(* C22: of two tasks running side by side, a task whose other task is      *)
(* sleeping in a backoff or has ended on a failed batch can still take its *)
(* next step; its batches are posted in order and it fails only on its own *)
(* answers; and a step of one task's run changes nothing the other task    *)
(* owns and no tracker entry at all.                                       *)
C22_TaskIsolation ==
    /\ [](\A t \in TaskIds : \A u \in TaskIds \ {t} :
            /\ run[t].pc \in {"sleeping", "done"} => CanGoOn(u)
            /\ \A i \in 2..Len(posted[u]) :
                  BatchOf(u, i) \in {BatchOf(u, i - 1), BatchOf(u, i - 1) + 1}
            /\ FailedBatches(u) # {} =>
                  /\ Len(answers[u]) >= max_retries
                  /\ \A k \in 0..(max_retries - 1) :
                        IsTransportFailure(answers[u][Len(answers[u]) - k])
            /\ run[u].pc = "done" /\ FailedBatches(u) = {} =>
                  AcceptedBatches(u) = 1..TotalBatches(u))
    /\ [][\A t \in TaskIds : \A u \in TaskIds \ {t} :
            RunStep(t) => /\ Owned(u)' = Owned(u)
                          /\ _task_storage' = _task_storage]_vars

\* One task ended on its first batch, after two backoff sleeps, and the
\* other delivered both of its batches.
C22_Witness ==
    \E t \in TaskIds : \E u \in TaskIds \ {t} :
        /\ FailedBatches(t) = {1}
        /\ Len(sleeps[t]) = 2
        /\ TotalBatches(u) = 2
        /\ AcceptedBatches(u) = {1, 2}
        /\ run[u].pc = "done"

---------------------------------------------------------------------------
\* The terminal states of a task's status.
Terminal == {"COMPLETED", "PARTIAL_FAILURE"}

\* The edges of Created -> Processing -> {Completed | PartialFailure}; a
\* task that was not submitted yet has no entry ("absent").
StatusEdges ==
    {<<"absent", "CREATED">>, <<"absent", "PROCESSING">>, <<"CREATED", "PROCESSING">>}
    \cup ({"PROCESSING"} \X Terminal)

WholeEntry(t) ==
    [status |-> "PROCESSING",
     directory |-> "directory",
     total_files |-> Len(handler[t].files),
     total_batches |-> Len(handler[t].batches),
     created_at |-> _task_storage[t].created_at]

(* C24: what a status query read from _task_storage for a task id, at any  *)
(* moment of the task's submission and delivery, is either no entry or the *)
(* whole entry of the task (status, directory, total_files, total_batches  *)
(* and created_at as organize_folder set them); the same holds of the      *)
(* entry in the map itself.                                                *)
C24_NoTornEntry ==
    \A t \in Tasks :
        /\ _task_storage[t] \in {NoEntry, WholeEntry(t)}
        /\ query[t].local_status \in {NoEntry, WholeEntry(t)}
        /\ query[t].pc = "returned" => query[t].localStatus = query[t].local_status
        /\ (query[t].local_status # NoEntry \/ _task_storage[t] # NoEntry) =>
              /\ handler[t].pc \in {"stored", "returned"}
              /\ _task_storage[t].total_batches = Len(run[t].batches)

\* A query read the entry while a batch of the task was in flight, and was
\* answered before the batch was.
C24_Witness ==
    \E t \in Tasks :
        /\ query[t].pc = "returned"
        /\ query[t].localStatus # NoEntry
        /\ query[t].localStatus.total_batches = 3
        /\ run[t].pc = "awaiting"

---------------------------------------------------------------------------
\* A 200 answer whose body is a RECEIVED acknowledgment: the JSON object of
\* the API description (taskId, batchNumber, ...), or the same object under
\* the field names of SnapshotBatchResponse.
IsReceived(ans) ==
    ans.exc = "none" /\ ans.status = 200 /\ ans.body \in {"camel", "model"}

(* C25 (as claimed): when the first attempt for a batch is answered 200    *)
(* with a RECEIVED acknowledgment, send_snapshot_batch returns it: the     *)
(* batch is delivered after that one attempt, with no sleep.               *)
C25_AckReturnedAtOnce ==
    \A t \in Tasks : \A i \in 1..Len(answers[t]) :
        (AttemptOf(t, i) = 0 /\ IsReceived(answers[t][i])) =>
            /\ BatchOf(t, i) \in AcceptedBatches(t)
            /\ BatchOf(t, i) \notin FailedBatches(t)
            /\ PostsOf(t, BatchOf(t, i)) = {i}
            /\ SleepsOf(t, BatchOf(t, i)) = {}

---------------------------------------------------------------------------
\* The call of one of the two paged client functions has returned.
ReturnedPaged ==
    /\ args.fn \in {"inspectAndOrganizeFolder", "inspectAndOrganizeWithGeneration"}
    /\ result # Pending

DigitValue(c) ==
    CASE c = "0" -> 0 [] c = "1" -> 1 [] c = "2" -> 2 [] c = "3" -> 3 [] c = "4" -> 4
      [] c = "5" -> 5 [] c = "6" -> 6 [] c = "7" -> 7 [] c = "8" -> 8 [] c = "9" -> 9
      [] OTHER -> -1

\* The integer the server reads from a query parameter, or -1 when the text
\* is not a sequence of digits.
RECURSIVE ParseInt(_)
ParseInt(text) ==
    IF text = <<>> THEN -1
    ELSE LET last == DigitValue(text[Len(text)])
             rest == SubSeq(text, 1, Len(text) - 1)
         IN  IF last = -1 THEN -1
             ELSE IF rest = <<>> THEN last
             ELSE IF ParseInt(rest) = -1 THEN -1
             ELSE 10 * ParseInt(rest) + last

(* C26 (as claimed): for every pageSize that is a number, the page_size    *)
(* parameter sent is an integer in 10..500: pageSize itself when it is in  *)
(* that range, 10 when it is below, 500 when it is above, and 100 when the *)
(* argument is left out.                                                   *)
C26_PageSizeClamped ==
    ReturnedPaged =>
        LET sent == ParseInt(result.value.url.page_size)
            pageSize == args.pageSize
        IN  /\ sent \in 10..500
            /\ pageSize = undefined => sent = 100
            /\ pageSize.kind = "finite" =>
                  sent = IF pageSize.value < 10 THEN 10
                         ELSE IF pageSize.value > 500 THEN 500
                         ELSE pageSize.value
            /\ pageSize.kind = "-Infinity" => sent = 10
            /\ pageSize.kind = "Infinity" => sent = 500

\* text has the pieces of part in a row.
Includes(text, part) ==
    \E i \in 0..(Len(text) - Len(part)) :
        \A k \in 1..Len(part) : text[i + k] = part[k]

(* C27 (as claimed): when the server answers one of the two paged client   *)
(* functions with status 400, 503 or 500, the promise is rejected with an  *)
(* Error whose message includes the digits of that status code.            *)
C27_MessageNamesStatus ==
    (ReturnedPaged /\ args.answer.exc = "none" /\ args.answer.status \in {400, 503, 500}) =>
        /\ result.value.settled = "rejected"
        /\ Includes(result.value.message, DecimalDigits(args.answer.status))

---------------------------------------------------------------------------
\* The attempts of batch b were all answered.
AllAnswered(t, b) == \A i \in PostsOf(t, b) : i <= Len(answers[t])

(* C28: whatever the endpoint answers, a batch gets at most max_retries    *)
(* attempts, numbered 0, 1, ... in order; once the last of max_retries     *)
(* attempts is answered the batch is delivered or failed (after the sleep  *)
(* of a 429, which no attempt follows); and a batch is never both.         *)
C28_BoundedAttempts ==
    \A t \in Tasks : \A b \in 1..TotalBatches(t) :
        /\ Cardinality(PostsOf(t, b)) <= max_retries
        /\ {AttemptOf(t, i) : i \in PostsOf(t, b)} = 0..(Cardinality(PostsOf(t, b)) - 1)
        /\ ~(b \in AcceptedBatches(t) /\ b \in FailedBatches(t))
        /\ (Cardinality(PostsOf(t, b)) = max_retries /\ AllAnswered(t, b)) =>
              \/ b \in AcceptedBatches(t) \cup FailedBatches(t)
              \/ /\ run[t].pc = "sleeping"
                 /\ run[t].batch_num = b
                 /\ IsRateLimited(answers[t][Len(answers[t])])
        /\ (run[t].pc = "done" /\ PostsOf(t, b) # {}) =>
              b \in AcceptedBatches(t) \cup FailedBatches(t)

\* A batch failed after a 429, a timeout and a 201.
C28_Witness ==
    \E t \in Tasks :
        /\ Len(answers[t]) = max_retries
        /\ IsRateLimited(answers[t][1])
        /\ IsTransportFailure(answers[t][2])
        /\ answers[t][3].exc = "none" /\ answers[t][3].status = 201
        /\ FailedBatches(t) = {1}
        /\ run[t].pc = "done"

\* An answer with a status below 400 other than 200.
IsOtherSuccess(ans) == ans.exc = "none" /\ ans.status < 400 /\ ans.status # 200

(* C29: an answer with a status below 400 other than 200 does not deliver  *)
(* the batch: before the last attempt it is followed at once, with no      *)
(* sleep, by the next attempt for the same batch, and on the last attempt  *)
(* the batch fails and the run ends.                                       *)
C29_Only200Accepts ==
    \A t \in Tasks : \A i \in 1..Len(answers[t]) :
        IsOtherSuccess(answers[t][i]) =>
            LET b == BatchOf(t, i)
                a == AttemptOf(t, i)
            IN  /\ \A k \in SleepsOf(t, b) : sleeps[t][k].attempt # a
                /\ IF a < max_retries - 1
                   THEN /\ Len(posted[t]) >= i + 1
                        /\ BatchOf(t, i + 1) = b
                        /\ AttemptOf(t, i + 1) = a + 1
                        /\ posted[t][i + 1].payload = posted[t][i].payload
                   ELSE /\ i = Len(posted[t])
                        /\ b \in FailedBatches(t)
                        /\ b \notin AcceptedBatches(t)
                        /\ run[t].pc = "done"

\* A batch was answered 201 three times and failed.
C29_Witness ==
    \E t \in Tasks :
        /\ Len(answers[t]) = max_retries
        /\ \A i \in 1..max_retries : IsOtherSuccess(answers[t][i])
        /\ FailedBatches(t) = {1}
        /\ sleeps[t] = <<>>

\* An answer with a status of 500 or above.
IsServerError(ans) == ans.exc = "none" /\ ans.status >= 500

(* C30: an attempt answered with a status of 500 or above is the last      *)
(* attempt of the task: no sleep and no attempt follows it, the batch is   *)
(* logged as failed, and no later batch is posted.                         *)
C30_ServerErrorNotRetried ==
    \A t \in Tasks : \A i \in 1..Len(answers[t]) :
        IsServerError(answers[t][i]) =>
            /\ i = Len(posted[t])
            /\ run[t].pc = "done"
            /\ BatchOf(t, i) \in FailedBatches(t)
            /\ \A k \in SleepsOf(t, BatchOf(t, i)) :
                  sleeps[t][k].attempt < AttemptOf(t, i)
            /\ \A j \in 1..Len(posted[t]) : BatchOf(t, j) <= BatchOf(t, i)
            /\ AttemptOf(t, i) = 0 => Cardinality(PostsOf(t, BatchOf(t, i))) = 1

\* The first attempt of batch 1 of three was answered 500.
C30_Witness ==
    \E t \in Tasks :
        /\ TotalBatches(t) = 3
        /\ Len(answers[t]) = 1
        /\ answers[t][1].exc = "none" /\ answers[t][1].status = 500
        /\ FailedBatches(t) = {1}

---------------------------------------------------------------------------
(* Termination of _send_batches_to_spring.  The event loop runs every      *)
(* coroutine that is ready, and client.post is called with                 *)
(* timeout=self.timeout, so every post returns or raises: the steps of the *)
(* handler and of the run are weakly fair.                                 *)

Fairness ==
    /\ WF_vars(\E t \in Tasks : organize_store(t))
    /\ WF_vars(\E t \in Tasks : organize_return(t))
    /\ WF_vars(\E t \in Tasks : run_start(t))
    /\ WF_vars(\E t \in Tasks, ans \in AllAnswers : respond(t, ans))
    /\ WF_vars(\E t \in Tasks : wake(t))

SpecFair == Init /\ [][Next]_vars /\ Fairness

\* The run of t is over after its last batch was accepted, or after the
\* first batch that failed.
FinishedRun(t) ==
    /\ run[t].pc = "done"
    /\ InFlight(t) = {}
    /\ \/ /\ FailedBatches(t) = {}
          /\ AcceptedBatches(t) = 1..TotalBatches(t)
       \/ \E b \in 1..TotalBatches(t) :
             /\ FailedBatches(t) = {b}
             /\ AcceptedBatches(t) = 1..(b - 1)
             /\ \A i \in 1..Len(posted[t]) : BatchOf(t, i) <= b

\* C31: every scheduled run finishes, whatever the batch list and whatever
\* the answers: after the last batch was accepted or after the first failed
\* batch.
C31_RunTerminates ==
    \A t \in Tasks : (run[t].pc = "scheduled") ~> FinishedRun(t)

\* A run of three batches that finished on a failure of its second batch
\* after retries.
C31_Witness ==
    \E t \in Tasks :
        /\ FinishedRun(t)
        /\ TotalBatches(t) = 3
        /\ FailedBatches(t) = {2}
        /\ Cardinality(PostsOf(t, 2)) = max_retries

---------------------------------------------------------------------------
\* C32: the tracker entry of a task is written once, at submission: from
\* then on its status is PROCESSING and its counts are those of the
\* submission, and no step changes or removes it, whatever happens to the
\* batches.
C32_EntryWrittenOnce ==
    /\ [](\A t \in Tasks :
             handler[t].pc \in {"stored", "returned"} =>
                 /\ _task_storage[t].status = "PROCESSING"
                 /\ _task_storage[t].total_files = Len(handler[t].files)
                 /\ _task_storage[t].total_batches = Len(handler[t].batches))
    /\ [][\A t \in Tasks :
             _task_storage[t] # NoEntry => _task_storage'[t] = _task_storage[t]]_vars

\* A run that delivered its first batch and failed on the next one, with
\* the entry of its task as it was stored.
C32_Witness ==
    \E t \in Tasks :
        /\ run[t].pc = "done"
        /\ AcceptedBatches(t) = {1}
        /\ FailedBatches(t) = {2}
        /\ _task_storage[t].status = "PROCESSING"
        /\ _task_storage[t].total_batches = 3
        /\ _task_storage[t].total_files = MaxFiles

---------------------------------------------------------------------------
\* The remote status lookup failed: a transport error or a status other
\* than 200.
IsLookupFailure(ans) == ans.exc # "none" \/ ans.status # 200

\* C33: a status query whose remote lookup fails answers 503, with or
\* without a local entry for the task; a query for a task id without a
\* local entry is answered from the remote lookup like any other, with
\* localStatus null (never a 404); and no step of a query changes
\* _task_storage.
C33_StatusQueryErrors ==
    /\ [](\A t \in Tasks :
             query[t].pc \in {"raised", "returned"} =>
                 /\ IsLookupFailure(query[t].answer) =>
                        query[t].pc = "raised" /\ query[t].status_code = 503
                 /\ query[t].status_code # 404
                 /\ (query[t].local_status = NoEntry
                        /\ ~IsLookupFailure(query[t].answer)
                        /\ query[t].answer.body = "json") =>
                        /\ query[t].pc = "returned"
                        /\ query[t].status_code = 200
                        /\ query[t].localStatus = NoEntry
                        /\ query[t].springStatus = "json")
    /\ [][(query' # query) => (_task_storage' = _task_storage)]_vars

\* A query made while the local entry of the task existed, answered 503
\* because the remote lookup failed.
C33_Witness ==
    \E t \in Tasks :
        /\ query[t].pc = "raised"
        /\ query[t].status_code = 503
        /\ query[t].local_status.status = "PROCESSING"
        /\ IsLookupFailure(query[t].answer)

---------------------------------------------------------------------------
(* C34: a path whose stat() fails while its FileEntry is built has no      *)
(* entry in the scan result, so it is not counted and lies in no batch cut *)
(* from the result; every other recordable path of the traversal has its   *)
(* one entry, in traversal order.                                          *)
C34_UnreadableFileLeftOut ==
    Returned("_collect_and_extract_files") =>
        LET listing == args.listing
            unreadable == {i \in 1..Len(listing) :
                             ~listing[i].hidden /\ listing[i].stat = "raises"}
            recordable == {j \in 1..Len(listing) : Recordable(listing[j])}
        IN  unreadable # {} =>
              /\ \A i \in unreadable : EntriesOf(i) = {}
              /\ Len(result.value) = Cardinality(recordable)
              /\ \A b \in 1..MaxBatch :
                    \A batch \in {_chunk_files(result.value, b)[n] :
                                     n \in 1..Len(_chunk_files(result.value, b))} :
                        \A k \in 1..Len(batch) : batch[k].relative_path \in recordable
              /\ \A j \in recordable : Cardinality(EntriesOf(j)) = 1
              /\ \A k \in 1..Len(result.value) - 1 :
                    result.value[k].relative_path < result.value[k + 1].relative_path

\* The stat() of the second of three paths failed and the paths before and
\* after it were recorded.
C34_Witness ==
    /\ Returned("_collect_and_extract_files")
    /\ Len(args.listing) = 3
    /\ ~args.listing[2].hidden /\ args.listing[2].stat = "raises"
    /\ Len(result.value) = 2
    /\ result.value[1].relative_path = 1
    /\ result.value[2].relative_path = 3

---------------------------------------------------------------------------
---------------------------------------------------------------------------
\* The five functions exported by frontend-client.ts and the prefix each
\* puts before the message of a failure.
ClientFunctions ==
    {"inspectAndOrganizeFolder", "inspectAndOrganizeWithGeneration",
     "inspectAndOrganizeBatch", "getUserStats", "getFilesByBucket"}

FixedPrefix(fn) ==
    CASE fn = "inspectAndOrganizeBatch" -> "batch request failed: "
      [] fn = "getUserStats" -> "stats lookup failed: "
      [] fn = "getFilesByBucket" -> "files lookup failed: "
      [] OTHER -> "organize request failed: "

---------------------------------------------------------------------------
(* OrganizedFilesComponent: the path input, the two organize buttons and   *)
(* the OrganizeState they drive.  A handler runs from the click to its     *)
(* await, and again from the settling of the client call to its end.       *)

\* The client calls the model lets be pending at once.
MaxInFlight == 2

\* What the user types: nothing, blanks, or one of two paths.
FolderPaths == {"", " ", "/a", "/b"}

\* String.prototype.trim on FolderPaths
trim(path) == IF path = " " THEN "" ELSE path

\* What the parsed body of a 2xx answer is: a result with status "success"
\* (without or with failed files), a result with another status and a
\* message, or null.
ParsedBodies == {"success", "partial", "failed", "null"}

\* Buttons that stay enabled during a request.
NeverDisabled == FALSE

\* disabled={state.loading} on the input and on both buttons
disabled == state.loading

\* setState({ loading: true, error: null, success: false })
Loading ==
    [loading |-> TRUE, error |-> null, success |-> FALSE, result |-> "undefined"]

\* setState({ loading: false, error: ..., success: false })
Failed(message) ==
    [loading |-> FALSE, error |-> message, success |-> FALSE, result |-> "undefined"]

\* setState({ loading: false, error: null, success: true, result: {...} })
Succeeded(res) ==
    [loading |-> FALSE, error |-> null, success |-> TRUE, result |-> res]

\* setState((prev) => ({ ...prev, error: "폴더 경로를 입력해주세요" }))
EmptyPath(prev) == [prev EXCEPT !.error = Str(<<"enter the folder path">>)]

Remove(seq, i) == SubSeq(seq, 1, i - 1) \o SubSeq(seq, i + 1, Len(seq))

\* onChange={(e) => setFolderPath(e.target.value)}
setFolderPath(path) ==
    /\ ~disabled
    /\ path # folderPath
    /\ folderPath' = path
    /\ UNCHANGED <<state, inflight, pipeline, query, args, result>>

\* handleOrganize from the click to its await, or to its return on an empty
\* path.
handleOrganize ==
    /\ ~disabled
    /\ Len(inflight) < MaxInFlight
    /\ IF trim(folderPath) = ""
       THEN /\ state' = EmptyPath(state)
            /\ UNCHANGED inflight
       ELSE /\ state' = Loading
            /\ inflight' = Append(inflight, [fn |-> "inspectAndOrganizeFolder",
                                             path |-> folderPath])
    /\ UNCHANGED <<folderPath, pipeline, query, args, result>>

\* handleOrganizeBatch from the click to its await, or to its return on an
\* empty path.
handleOrganizeBatch ==
    /\ ~disabled
    /\ Len(inflight) < MaxInFlight
    /\ IF trim(folderPath) = ""
       THEN /\ state' = EmptyPath(state)
            /\ UNCHANGED inflight
       ELSE /\ state' = Loading
            /\ inflight' = Append(inflight, [fn |-> "inspectAndOrganizeBatch",
                                             path |-> folderPath])
    /\ UNCHANGED <<folderPath, pipeline, query, args, result>>

\* The message of the TypeError of reading a property of null.
TypeErrorMessage == Str(<<"Cannot read properties of null">>)

\* handleOrganize after await inspectAndOrganizeFolder(folderPath): the call
\* settled on the answer ans, whose parsed body (if any) is parsed.
organize_settles(i, ans, parsed) ==
    /\ i \in 1..Len(inflight)
    /\ inflight[i].fn = "inspectAndOrganizeFolder"
    /\ LET settled == inspectAndOrganize("/api/folders/inspect-and-organize",
                                         undefined, ans)
       IN  state' =
              IF settled.settled = "rejected" THEN Failed(Str(settled.message))
              ELSE IF parsed = "null" THEN Failed(TypeErrorMessage)
              ELSE IF parsed \in {"success", "partial"}
              THEN Succeeded([directory |-> inflight[i].path,
                              savedCount |-> "result.savedCount",
                              failedCount |-> IF parsed = "partial" THEN 1 ELSE 0])
              ELSE Failed(Str(<<"result.message">>))
    /\ inflight' = Remove(inflight, i)
    /\ UNCHANGED <<folderPath, pipeline, query, args, result>>

\* handleOrganizeBatch after await inspectAndOrganizeBatch(folderPath)
batch_settles(i, ans, parsed) ==
    /\ i \in 1..Len(inflight)
    /\ inflight[i].fn = "inspectAndOrganizeBatch"
    /\ LET settled == inspectAndOrganizeBatch(ans)
       IN  state' =
              IF settled.settled = "rejected" THEN Failed(Str(settled.message))
              ELSE IF parsed = "null" THEN Failed(TypeErrorMessage)
              ELSE Succeeded([directory |-> inflight[i].path,
                              savedCount |-> 0,
                              failedCount |-> 0])
    /\ inflight' = Remove(inflight, i)
    /\ UNCHANGED <<folderPath, pipeline, query, args, result>>

NextComponent ==
    \/ \E path \in FolderPaths : setFolderPath(path)
    \/ handleOrganize
    \/ handleOrganizeBatch
    \/ \E i \in 1..MaxInFlight, ans \in FetchAnswers, parsed \in ParsedBodies :
          organize_settles(i, ans, parsed)
    \/ \E i \in 1..MaxInFlight, ans \in FetchAnswers, parsed \in ParsedBodies :
          batch_settles(i, ans, parsed)

SpecComponent == Init /\ [][NextComponent]_vars

\* C37: in every state of the component the error is null whenever success
\* is true: the error box and the success box are never shown together.
C37_ErrorExcludesSuccess ==
    state.success => state.error = null

\* C38: loading is true exactly while an organize request is in flight, and
\* at most one is: a click that starts a request sets it, no click is taken
\* while it is set, and every settling of a request clears it.
C38_LoadingWhileInFlight ==
    /\ [](/\ Len(inflight) <= 1
          /\ state.loading <=> Len(inflight) = 1)
    /\ [][/\ Len(inflight') > Len(inflight) => ~state.loading /\ state'.loading
          /\ Len(inflight') < Len(inflight) => state.loading /\ ~state'.loading
          /\ state.loading => folderPath' = folderPath]_vars

\* A batch request for the second path is in flight and the component is
\* loading.
C38_Witness ==
    /\ Len(inflight) = 1
    /\ inflight[1].fn = "inspectAndOrganizeBatch"
    /\ state.loading
    /\ folderPath = "/b"

=============================================================================
